---- MODULE Spec2Model ----
(***************************************************************************)
(* Model of tinyhttp's request engine (src/request.rs): the Request        *)
(* builder, the transport connector, the request serializer and the        *)
(* redirect-following loop of Request::send.                               *)
(*                                                                         *)
(* Text (URLs, header values, request lines) is a sequence of tokens, one  *)
(* token per syntactic unit ("http", ":", "//", "example", ".", "com",     *)
(* "/", "a", ...), so that parsing, joining and rendering are computed.    *)
(***************************************************************************)
EXTENDS Integers, Sequences, FiniteSets, TLC

\* ------------------------------------------------------------------ bounds
\* builder calls made on a Request before send
MaxOps == 2
\* connection attempts of one send
MaxHops == 3

\* ------------------------------------------------------------- text tokens
Digits == {"0", "1", "2", "3", "4", "5", "6", "7", "8", "9"}

DigitVal(d) ==
  CASE d = "0" -> 0 [] d = "1" -> 1 [] d = "2" -> 2 [] d = "3" -> 3
    [] d = "4" -> 4 [] d = "5" -> 5 [] d = "6" -> 6 [] d = "7" -> 7
    [] d = "8" -> 8 [] OTHER -> 9

RECURSIVE Decimal(_)
Decimal(s) ==
  IF s = <<>> THEN 0
  ELSE 10 * Decimal(SubSeq(s, 1, Len(s) - 1)) + DigitVal(s[Len(s)])

\* tokens that stand for bytes a header value may not hold (control bytes)
CtlTokens == {"\n", "\r"}
\* tokens that stand for bytes >= 0x80: legal in a header value, not visible ASCII
ObsTokens == {"<ff>"}
Punct == {":", "//", "/", "?", ".", " ", "=", "&", "+"}

\* index of the first token of s, from i on, that is in toks; Len(s)+1 when
\* there is none
RECURSIVE FirstFrom(_, _, _)
FirstFrom(s, toks, i) ==
  IF i > Len(s) THEN Len(s) + 1
  ELSE IF s[i] \in toks THEN i
  ELSE FirstFrom(s, toks, i + 1)

FirstIn(s, toks) == FirstFrom(s, toks, 1)

\* index of the last token of s, from i down, that is in toks; 0 when there
\* is none
RECURSIVE LastFrom(_, _, _)
LastFrom(s, toks, i) ==
  IF i < 1 THEN 0
  ELSE IF s[i] \in toks THEN i
  ELSE LastFrom(s, toks, i - 1)

LastIn(s, toks) == LastFrom(s, toks, Len(s))

\* ---------------------------------------------------------------- url::Url
NoPort == 0 - 1

SpecialSchemes == {"http", "https", "ftp"}

\* url::Url::port_or_known_default's table
DefaultPort(scheme) ==
  CASE scheme = "http" -> 80
    [] scheme = "https" -> 443
    [] scheme = "ftp" -> 21
    [] OTHER -> NoPort

NoUrl == [scheme |-> "", host |-> <<>>, hostkind |-> "none", port |-> NoPort,
          path |-> <<>>, hasquery |-> FALSE, query |-> <<>>]

UrlOk(u) == [ok |-> TRUE, err |-> "", url |-> u]
UrlErr(e) == [ok |-> FALSE, err |-> e, url |-> NoUrl]

\* a scheme is a word followed by ":"
HasScheme(t) ==
  /\ Len(t) >= 2
  /\ t[2] = ":"
  /\ t[1] \notin Punct \cup Digits \cup CtlTokens \cup ObsTokens

HostKind(h) ==
  IF h = <<>> THEN "none"
  ELSE IF \A i \in 1..Len(h) : h[i] \in Digits \cup {"."} THEN "ipv4"
  ELSE "domain"

\* path [? query] of a reference whose "?" is at index q (Len(r)+1: none)
PathOf(r) == SubSeq(r, 1, FirstIn(r, {"?"}) - 1)
HasQueryOf(r) == FirstIn(r, {"?"}) <= Len(r)
QueryOf(r) == SubSeq(r, FirstIn(r, {"?"}) + 1, Len(r))

\* a port: empty, or decimal digits of a 16-bit number
PortOk(ptoks) ==
  /\ \A i \in 1..Len(ptoks) : ptoks[i] \in Digits
  /\ Decimal(ptoks) <= 65535

\* the URL of scheme://host[:ptoks]rest
UrlOfParts(scheme, host, ptoks, rest) ==
  IF host = <<>> /\ scheme \in SpecialSchemes THEN UrlErr("EmptyHost")
  ELSE IF ~PortOk(ptoks) THEN UrlErr("InvalidPort")
  ELSE UrlOk([scheme |-> scheme,
              host |-> host,
              hostkind |-> HostKind(host),
              port |-> IF ptoks = <<>> \/ Decimal(ptoks) = DefaultPort(scheme)
                       THEN NoPort ELSE Decimal(ptoks),
              path |-> IF PathOf(rest) = <<>> /\ scheme \in SpecialSchemes
                       THEN <<"/">> ELSE PathOf(rest),
              hasquery |-> HasQueryOf(rest),
              query |-> QueryOf(rest)])

\* host [":" port], split at its first ":"
SplitAuthority(scheme, auth, rest, c) ==
  UrlOfParts(scheme, SubSeq(auth, 1, c - 1), SubSeq(auth, c + 1, Len(auth)), rest)

\* authority and what follows it, split at the first "/" or "?"
SplitReference(scheme, r, e) ==
  SplitAuthority(scheme, SubSeq(r, 1, e - 1), SubSeq(r, e, Len(r)),
                 FirstIn(SubSeq(r, 1, e - 1), {":"}))

\* what follows "//": host [":" port] path ["?" query]
ParseAuthority(scheme, r) == SplitReference(scheme, r, FirstIn(r, {"/", "?"}))

\* url::Url::parse
UrlParse(t) ==
  IF ~HasScheme(t) THEN UrlErr("RelativeUrlWithoutBase")
  ELSE LET scheme == t[1]
           r == SubSeq(t, 3, Len(t))
       IN  IF Len(r) >= 1 /\ r[1] = "//"
           THEN ParseAuthority(scheme, SubSeq(r, 2, Len(r)))
           ELSE UrlOk([scheme |-> scheme, host |-> <<>>, hostkind |-> "none",
                       port |-> NoPort, path |-> PathOf(r),
                       hasquery |-> HasQueryOf(r), query |-> QueryOf(r)])

\* url::Url::join
UrlJoin(base, ref) ==
  IF HasScheme(ref) THEN UrlParse(ref)
  ELSE IF base.hostkind = "none" THEN UrlErr("RelativeUrlWithCannotBeABaseBase")
  ELSE IF Len(ref) >= 1 /\ ref[1] = "//"
       THEN ParseAuthority(base.scheme, SubSeq(ref, 2, Len(ref)))
  ELSE IF ref = <<>> THEN UrlOk(base)
  ELSE IF ref[1] = "?"
       THEN UrlOk([base EXCEPT !.hasquery = TRUE, !.query = QueryOf(ref)])
  ELSE IF ref[1] = "/"
       THEN UrlOk([base EXCEPT !.path = PathOf(ref),
                               !.hasquery = HasQueryOf(ref), !.query = QueryOf(ref)])
  ELSE UrlOk([base EXCEPT
                !.path = SubSeq(base.path, 1, LastIn(base.path, {"/"})) \o PathOf(ref),
                !.hasquery = HasQueryOf(ref), !.query = QueryOf(ref)])

\* form-urlencoding of one token of a query key or value
FormEncode(tok) ==
  CASE tok = " " -> "+"
    [] tok = "&" -> "%26"
    [] tok = "=" -> "%3D"
    [] tok = "+" -> "%2B"
    [] tok = "?" -> "%3F"
    [] tok = "/" -> "%2F"
    [] tok = ":" -> "%3A"
    [] OTHER -> tok

FormEncodeText(s) == [i \in 1..Len(s) |-> FormEncode(s[i])]

\* url.query_pairs_mut().append_pair(key, value)
AppendPair(u, key, value) ==
  [u EXCEPT !.hasquery = TRUE,
            !.query = (IF u.hasquery /\ u.query # <<>> THEN u.query \o <<"&">> ELSE <<>>)
                      \o FormEncodeText(key) \o <<"=">> \o FormEncodeText(value)]

\* ------------------------------------------------------- url accessors used
\* url.host_str(): None (<<>>) when the URL has no host
HostStr(u) == u.host
\* url.port_or_known_default(): NoPort when neither explicit nor defaultable
PortOrKnownDefault(u) == IF u.port # NoPort THEN u.port ELSE DefaultPort(u.scheme)
\* url.domain(): None (<<>>) unless the host is a domain name
Domain(u) == IF u.hostkind = "domain" THEN u.host ELSE <<>>

\* ------------------------------------------------------------- http headers
\* canonical (lower-case) header names of the model
HeaderNames == {"connection", "host", "accept", "location"}
\* the order write_request's loop over the map is rendered in
NameOrder == <<"connection", "host", "accept", "location">>

\* IntoHeaderName: header names are case-insensitive and stored lower-case
CanonName(n) ==
  CASE n = "Connection" -> "connection"
    [] n = "Host" -> "host"
    [] n = "Accept" -> "accept"
    [] n = "Location" -> "location"
    [] OTHER -> n

EmptyHeaders == [n \in HeaderNames |-> <<>>]

\* HttpTryInto<HeaderValue>: a value holding a control byte is rejected
HttpTryInto(value) == \A i \in 1..Len(value) : value[i] \notin CtlTokens

\* HeaderValue::to_str: only visible ASCII decodes
ToStrOk(value) == \A i \in 1..Len(value) : value[i] \notin ObsTokens \cup CtlTokens

\* mutant of header_insert: the name is cleared before the value is converted
header_insert_ClearFirst(hs, header, value) ==
  IF HttpTryInto(value)
  THEN [ok |-> TRUE, headers |-> [hs EXCEPT ![CanonName(header)] = <<value>>]]
  ELSE [ok |-> FALSE, headers |-> [hs EXCEPT ![CanonName(header)] = <<>>]]

\* mutant of header_insert: the value is added to the ones already there
header_insert_Appending(hs, header, value) ==
  IF HttpTryInto(value)
  THEN [ok |-> TRUE, headers |-> [hs EXCEPT ![CanonName(header)] = Append(@, value)]]
  ELSE [ok |-> FALSE, headers |-> hs]

\* fn header_insert: replaces every value of the name
header_insert(hs, header, value) ==
  IF HttpTryInto(value)
  THEN [ok |-> TRUE, headers |-> [hs EXCEPT ![CanonName(header)] = <<value>>]]
  ELSE [ok |-> FALSE, headers |-> hs]

\* mutant of header_append: the new value takes the place of the old ones
header_append_Replacing(hs, header, value) ==
  IF HttpTryInto(value)
  THEN [ok |-> TRUE, headers |-> [hs EXCEPT ![CanonName(header)] = <<value>>]]
  ELSE [ok |-> FALSE, headers |-> hs]

\* fn header_append: adds one more value for the name
header_append(hs, header, value) ==
  IF HttpTryInto(value)
  THEN [ok |-> TRUE, headers |-> [hs EXCEPT ![CanonName(header)] = Append(@, value)]]
  ELSE [ok |-> FALSE, headers |-> hs]

\* ------------------------------------------------------------ input alphabets
Methods == {"GET", "POST"}
Encodings == {"None", "UTF_8"}

\* texts handed to Request::new
BaseUrls ==
  { <<"http", ":", "//", "example", ".", "com", "/", "a">>,
    <<"https", ":", "//", "b", ":", "8", "4", "4", "3", "/", "d", "/", "x", "?", "k", "=", "v">>,
    <<"http", ":", "//", "1", ".", "2", ".", "3", ".", "4", "/", "x", "?">>,
    <<"ftp", ":", "//", "b", "/">>,
    <<"foo", ":", "//", "b", "/">>,
    <<"mailto", ":", "x">>,
    <<"/", "a">>,
    <<"http", ":", "//", "b", ":", "9", "9", "9", "9", "9", "/">> }

\* header names and values a caller passes to header / header_append
CallerNames == {"Connection", "host", "accept"}
CallerValues == { <<"keep-alive">>, <<"evil", "\n", "x">> }
ParamKeys == { <<"q">> }
ParamValues == { <<"x", " ", "y">> }

\* Location values a server may send
Locations ==
  { <<"/", "b">>,
    <<"https", ":", "//", "example", ".", "com", "/", "a">>,
    <<"http", ":", "//", "1", ".", "2", ".", "3", ".", "4", "/">>,
    <<"//", "b", ":", "9", "9", "9", "9", "9", "/">>,
    <<"http", ":", "//", "b", ":", "9", "9", "9", "9", "9", "/">>,
    <<"ftp", ":", "//", "b", "/">>,
    <<"foo", ":", "//", "b", "/">>,
    <<"mailto", ":", "x">>,
    <<"<ff>">> }

Statuses == {200, 301, 304, 400}

\* the header map of a response: zero or one Location value
ResponseHeaders(locs) ==
  [n \in HeaderNames |->
     IF n = "location" THEN locs
     ELSE IF n = "connection" THEN << <<"close">> >>
     ELSE <<>>]

\* what parse::read_response may return: every status without a Location,
\* a simple Location on statuses that are not redirections and on 303, and
\* every other Location shape under 301
Responses ==
  { [status |-> s, headers |-> ResponseHeaders(<<>>)] : s \in Statuses }
  \cup
  { [status |-> s, headers |-> ResponseHeaders(<< <<"/", "b">> >>)] :
      s \in {200, 303, 400} }
  \cup
  { [status |-> 301, headers |-> ResponseHeaders(<<l>>)] :
      l \in Locations \ { <<"/", "b">> } }

NoResponse == [status |-> 0, headers |-> EmptyHeaders]

\* ------------------------------------------------------------------- state
VARIABLES
  pc,                \* where the caller / send is
  url,               \* Request.url
  method,            \* Request.method
  headers,           \* Request.headers
  redirect,          \* Request.redirect
  default_encoding,  \* Request.default_encoding
  ret,               \* what the last builder call returned
  nops,              \* builder calls made so far
  self0,             \* history: the Request as send received it
  cur,               \* send's local `url`
  hops,              \* history: one record per connection attempt
  result             \* what send returned

vars == <<pc, url, method, headers, redirect, default_encoding, ret, nops,
          self0, cur, hops, result>>

request == <<url, method, headers, redirect, default_encoding>>

NoResult == [tag |-> "none", err |-> "", msg |-> "", status |-> 0,
             headers |-> EmptyHeaders, reader |-> 0]
Ok(r, reader) == [tag |-> "ok", err |-> "", msg |-> "", status |-> r.status,
                  headers |-> r.headers, reader |-> reader]
Err(e, m) == [tag |-> "err", err |-> e, msg |-> m, status |-> 0,
              headers |-> EmptyHeaders, reader |-> 0]

Snapshot(u, m, hs, rd, enc) ==
  [url |-> u, method |-> m, headers |-> hs, redirect |-> rd, default_encoding |-> enc]
NoRequest == Snapshot(NoUrl, "GET", EmptyHeaders, TRUE, "None")

Init ==
  /\ pc = "new"
  /\ url = NoUrl
  /\ method = "GET"
  /\ headers = EmptyHeaders
  /\ redirect = TRUE
  /\ default_encoding = "None"
  /\ ret = "none"
  /\ nops = 0
  /\ self0 = NoRequest
  /\ cur = NoUrl
  /\ hops = <<>>
  /\ result = NoResult

\* ------------------------------------------------------------ Request::new
\* Url::parse(base_url).expect("invalid url"): a parse error panics
New(base_url) ==
  /\ pc = "new"
  /\ LET p == UrlParse(base_url)
     IN  IF p.ok
         THEN /\ pc' = "building"
              /\ url' = p.url
         ELSE /\ pc' = "panicked"
              /\ url' = url
  /\ method' = "GET"
  /\ headers' = EmptyHeaders
  /\ redirect' = TRUE
  /\ default_encoding' = "None"
  /\ UNCHANGED <<ret, nops, self0, cur, hops, result>>

\* --------------------------------------------------------- builder methods
Building == pc = "building" /\ nops < MaxOps

SetMethod(m) ==
  /\ Building
  /\ method' = m
  /\ ret' = "unit"
  /\ nops' = nops + 1
  /\ UNCHANGED <<pc, url, headers, redirect, default_encoding, self0, cur, hops, result>>

Param(key, value) ==
  /\ Building
  /\ url' = AppendPair(url, key, value)
  /\ ret' = "unit"
  /\ nops' = nops + 1
  /\ UNCHANGED <<pc, method, headers, redirect, default_encoding, self0, cur, hops, result>>

Header(header, value) ==
  /\ Building
  /\ LET r == header_insert(headers, header, value)
     IN  /\ headers' = r.headers
         /\ ret' = IF r.ok THEN "Ok" ELSE "Err"
  /\ nops' = nops + 1
  /\ UNCHANGED <<pc, url, method, redirect, default_encoding, self0, cur, hops, result>>

HeaderAppend(header, value) ==
  /\ Building
  /\ LET r == header_append(headers, header, value)
     IN  /\ headers' = r.headers
         /\ ret' = IF r.ok THEN "Ok" ELSE "Err"
  /\ nops' = nops + 1
  /\ UNCHANGED <<pc, url, method, redirect, default_encoding, self0, cur, hops, result>>

Redirect(b) ==
  /\ Building
  /\ redirect' = b
  /\ ret' = "unit"
  /\ nops' = nops + 1
  /\ UNCHANGED <<pc, url, method, headers, default_encoding, self0, cur, hops, result>>

DefaultEncoding(e) ==
  /\ Building
  /\ default_encoding' = e
  /\ ret' = "unit"
  /\ nops' = nops + 1
  /\ UNCHANGED <<pc, url, method, headers, redirect, self0, cur, hops, result>>

\* ------------------------------------------------------- Request::connect
\* mutant of connect: the scheme is looked at before the host and the port
connect_SchemeFirst(u) ==
  IF u.scheme \notin {"http", "https"}
  THEN [err |-> "InvalidUrl", msg |-> "url contains unsupported scheme", kind |-> "none"]
  ELSE IF HostStr(u) = <<>>
  THEN [err |-> "InvalidUrl", msg |-> "url has no host", kind |-> "none"]
  ELSE IF PortOrKnownDefault(u) = NoPort
  THEN [err |-> "InvalidUrl", msg |-> "url has no port", kind |-> "none"]
  ELSE [err |-> "", msg |-> "", kind |-> IF u.scheme = "http" THEN "plain" ELSE "tls"]

\* the transport connect() asks for, or the InvalidUrl it returns
connect(u) ==
  IF HostStr(u) = <<>>
  THEN [err |-> "InvalidUrl", msg |-> "url has no host", kind |-> "none"]
  ELSE IF PortOrKnownDefault(u) = NoPort
  THEN [err |-> "InvalidUrl", msg |-> "url has no port", kind |-> "none"]
  ELSE IF u.scheme = "http"
  THEN [err |-> "", msg |-> "", kind |-> "plain"]
  ELSE IF u.scheme = "https"
  THEN [err |-> "", msg |-> "", kind |-> "tls"]
  ELSE [err |-> "InvalidUrl", msg |-> "url contains unsupported scheme", kind |-> "none"]

\* one record of the history per call of MaybeTls::connect / connect_tls
NewHop(u, kind, opened) ==
  [url |-> u, kind |-> kind, host |-> HostStr(u), port |-> PortOrKnownDefault(u),
   stream |-> IF opened THEN "open" ELSE "none",
   wire |-> <<>>, flushed |-> FALSE, read |-> FALSE, resp |-> NoResponse]

Last == Len(hops)

\* -------------------------------------------------- Request::write_request
\* mutant of RequestLine: an empty query is left out
RequestLine_NonEmpty(m, u) ==
  IF u.hasquery /\ u.query # <<>>
  THEN <<m, " ">> \o u.path \o <<"?">> \o u.query \o <<" ", "HTTP/1.1">>
  ELSE <<m, " ">> \o u.path \o <<" ", "HTTP/1.1">>

\* the request line: METHOD path[?query] HTTP/1.1
RequestLine(m, u) ==
  IF u.hasquery
  THEN <<m, " ">> \o u.path \o <<"?">> \o u.query \o <<" ", "HTTP/1.1">>
  ELSE <<m, " ">> \o u.path \o <<" ", "HTTP/1.1">>

\* mutant of ForcedHeaders: a Host that is already set is left alone
ForcedHeaders_HostOnce(hs, u) ==
  LET c == header_insert(hs, "connection", <<"close">>)
  IN  IF ~c.ok THEN c
      ELSE IF Domain(u) # <<>> /\ c.headers["host"] = <<>>
      THEN header_insert(c.headers, "host", Domain(u))
      ELSE c

\* mutant of ForcedHeaders: without a domain the Host entry is removed
ForcedHeaders_ClearHost(hs, u) ==
  LET c == header_insert(hs, "connection", <<"close">>)
  IN  IF ~c.ok THEN c
      ELSE IF Domain(u) # <<>> THEN header_insert(c.headers, "host", Domain(u))
      ELSE [ok |-> TRUE, headers |-> [c.headers EXCEPT !["host"] = <<>>]]

\* the two forced header_insert calls; ok is FALSE when one of them fails
ForcedHeaders(hs, u) ==
  LET c == header_insert(hs, "connection", <<"close">>)
  IN  IF ~c.ok THEN c
      ELSE IF Domain(u) # <<>> THEN header_insert(c.headers, "host", Domain(u))
      ELSE c

\* the lines the loop over self.headers writes: "name: value"
RECURSIVE HeaderLinesFrom(_, _, _)
HeaderLinesFrom(hs, i, j) ==
  IF i > Len(NameOrder) THEN <<>>
  ELSE IF j > Len(hs[NameOrder[i]]) THEN HeaderLinesFrom(hs, i + 1, 1)
  ELSE << <<NameOrder[i], ": ">> \o hs[NameOrder[i]][j] >> \o HeaderLinesFrom(hs, i, j + 1)

HeaderLines(hs) == HeaderLinesFrom(hs, 1, 1)

\* everything write_request puts into the BufWriter: line, headers, blank line
RequestText(m, hs, u) == <<RequestLine(m, u)>> \o HeaderLines(hs) \o << <<>> >>

\* ------------------------------------------------------------ Request::send
\* mutants of is_redirection: an upper bound off by one, "not a success"
\* instead of "a redirection", and only the statuses that name a new resource
is_redirection_Incl400(status) == 300 <= status /\ status <= 400
is_redirection_NotSuccess(status) == ~(200 <= status /\ status < 300)
is_redirection_MovedOnly(status) == status \in {301, 302, 303, 307, 308}

\* http::StatusCode::is_redirection
is_redirection(status) == 300 <= status /\ status < 400

\* mutant of base_redirect_url: a join that fails keeps the previous URL
base_redirect_url_KeepOnJoinError(location, previous_url) ==
  LET p == UrlParse(location)
  IN  IF p.ok THEN [err |-> "", msg |-> "", url |-> p.url]
      ELSE IF p.err = "RelativeUrlWithoutBase"
      THEN LET j == UrlJoin(previous_url, location)
           IN  IF j.ok THEN [err |-> "", msg |-> "", url |-> j.url]
               ELSE [err |-> "", msg |-> "", url |-> previous_url]
      ELSE [err |-> "InvalidUrl", msg |-> "invalid redirection url", url |-> NoUrl]

\* Request::base_redirect_url
base_redirect_url(location, previous_url) ==
  LET p == UrlParse(location)
  IN  IF p.ok THEN [err |-> "", msg |-> "", url |-> p.url]
      ELSE IF p.err = "RelativeUrlWithoutBase"
      THEN LET j == UrlJoin(previous_url, location)
           IN  IF j.ok THEN [err |-> "", msg |-> "", url |-> j.url]
               ELSE [err |-> "InvalidUrl", msg |-> "cannot join location with new url",
                     url |-> NoUrl]
      ELSE [err |-> "InvalidUrl", msg |-> "invalid redirection url", url |-> NoUrl]

\* mutant of Decision: the Location is resolved against self.url
Decision_JoinOriginal(self_url, self_redirect, current, r) ==
  IF ~self_redirect \/ ~is_redirection(r.status)
  THEN [kind |-> "return", err |-> "", msg |-> "", url |-> current]
  ELSE IF r.headers["location"] = <<>>
  THEN [kind |-> "fail", err |-> "InvalidResponse",
        msg |-> "redirect has no location header", url |-> current]
  ELSE IF ~ToStrOk(r.headers["location"][1])
  THEN [kind |-> "fail", err |-> "InvalidResponse",
        msg |-> "location to str error", url |-> current]
  ELSE LET n == base_redirect_url(r.headers["location"][1], self_url)
       IN  IF n.err # ""
           THEN [kind |-> "fail", err |-> n.err, msg |-> n.msg, url |-> current]
           ELSE [kind |-> "redirect", err |-> "", msg |-> "", url |-> n.url]

\* mutant of Decision: the early return needs both conditions
Decision_And(self_url, self_redirect, current, r) ==
  IF ~self_redirect /\ ~is_redirection(r.status)
  THEN [kind |-> "return", err |-> "", msg |-> "", url |-> current]
  ELSE IF r.headers["location"] = <<>>
  THEN [kind |-> "fail", err |-> "InvalidResponse",
        msg |-> "redirect has no location header", url |-> current]
  ELSE IF ~ToStrOk(r.headers["location"][1])
  THEN [kind |-> "fail", err |-> "InvalidResponse",
        msg |-> "location to str error", url |-> current]
  ELSE LET n == base_redirect_url(r.headers["location"][1], current)
       IN  IF n.err # ""
           THEN [kind |-> "fail", err |-> n.err, msg |-> n.msg, url |-> current]
           ELSE [kind |-> "redirect", err |-> "", msg |-> "", url |-> n.url]

\* mutant of Decision: a redirection without a Location is handed back
Decision_ReturnNoLocation(self_url, self_redirect, current, r) ==
  IF ~self_redirect \/ ~is_redirection(r.status) \/ r.headers["location"] = <<>>
  THEN [kind |-> "return", err |-> "", msg |-> "", url |-> current]
  ELSE IF ~ToStrOk(r.headers["location"][1])
  THEN [kind |-> "fail", err |-> "InvalidResponse",
        msg |-> "location to str error", url |-> current]
  ELSE LET n == base_redirect_url(r.headers["location"][1], current)
       IN  IF n.err # ""
           THEN [kind |-> "fail", err |-> n.err, msg |-> n.msg, url |-> current]
           ELSE [kind |-> "redirect", err |-> "", msg |-> "", url |-> n.url]

\* what the loop body does once a response is read: return it, fail, or
\* continue with a new working URL
Decision(self_url, self_redirect, current, r) ==
  IF ~self_redirect \/ ~is_redirection(r.status)
  THEN [kind |-> "return", err |-> "", msg |-> "", url |-> current]
  ELSE IF r.headers["location"] = <<>>
  THEN [kind |-> "fail", err |-> "InvalidResponse",
        msg |-> "redirect has no location header", url |-> current]
  ELSE IF ~ToStrOk(r.headers["location"][1])
  THEN [kind |-> "fail", err |-> "InvalidResponse",
        msg |-> "location to str error", url |-> current]
  ELSE LET n == base_redirect_url(r.headers["location"][1], current)
       IN  IF n.err # ""
           THEN [kind |-> "fail", err |-> n.err, msg |-> n.msg, url |-> current]
           ELSE [kind |-> "redirect", err |-> "", msg |-> "", url |-> n.url]

\* send(mut self) consumes the Request: let mut url = self.url.clone().
\* The builder's bookkeeping (its last return value, its call count) ends here.
Send ==
  /\ pc = "building"
  /\ cur' = url
  /\ pc' = "connecting"
  /\ self0' = Snapshot(url, method, headers, redirect, default_encoding)
  /\ ret' = "none"
  /\ nops' = 0
  /\ UNCHANGED <<request, hops, result>>

\* connect() returns InvalidUrl before any transport is asked for
ConnectInvalid ==
  /\ pc = "connecting"
  /\ connect(cur).err # ""
  /\ result' = Err(connect(cur).err, connect(cur).msg)
  /\ pc' = "failed"
  /\ UNCHANGED <<request, ret, nops, self0, cur, hops>>

\* mutant of ConnectOk: the third hop is refused
ConnectOk_Capped ==
  /\ pc = "connecting"
  /\ connect(cur).err = ""
  /\ Len(hops) < MaxHops
  /\ IF Len(hops) < 2
     THEN /\ hops' = Append(hops, NewHop(cur, connect(cur).kind, TRUE))
          /\ pc' = "sending"
          /\ UNCHANGED result
     ELSE /\ result' = [tag |-> "err", err |-> "TooManyRedirects", msg |-> "",
                        status |-> 0, headers |-> [n \in HeaderNames |-> <<>>],
                        reader |-> 0]
          /\ pc' = "failed"
          /\ UNCHANGED hops
  /\ UNCHANGED <<request, ret, nops, self0, cur>>

\* MaybeTls::connect / connect_tls opens the stream
ConnectOk ==
  /\ pc = "connecting"
  /\ connect(cur).err = ""
  /\ Len(hops) < MaxHops
  /\ hops' = Append(hops, NewHop(cur, connect(cur).kind, TRUE))
  /\ pc' = "sending"
  /\ UNCHANGED <<request, ret, nops, self0, cur, result>>

\* mutant of ConnectErr: a failed connect is tried again
ConnectErr_Retry ==
  /\ pc = "connecting"
  /\ connect(cur).err = ""
  /\ Len(hops) < MaxHops
  /\ hops' = Append(hops, NewHop(cur, connect(cur).kind, FALSE))
  /\ UNCHANGED <<pc, request, ret, nops, self0, cur, result>>

\* MaybeTls::connect / connect_tls fails
ConnectErr ==
  /\ pc = "connecting"
  /\ connect(cur).err = ""
  /\ Len(hops) < MaxHops
  /\ hops' = Append(hops, NewHop(cur, connect(cur).kind, FALSE))
  /\ result' = Err("Io", "connect")
  /\ pc' = "failed"
  /\ UNCHANGED <<request, ret, nops, self0, cur>>

\* write_request succeeds: the forced headers stay in self.headers and the
\* flush puts the whole request on the transport
WriteOk ==
  /\ pc = "sending"
  /\ ForcedHeaders(headers, cur).ok
  /\ headers' = ForcedHeaders(headers, cur).headers
  /\ hops' = [hops EXCEPT ![Last].wire = RequestText(method, headers', cur),
                          ![Last].flushed = TRUE]
  /\ pc' = "awaiting"
  /\ UNCHANGED <<url, method, redirect, default_encoding, ret, nops, self0, cur, result>>

\* mutant of WriteErr: the error of write_request is dropped and send reads on
WriteErr_Swallowed(k) ==
  /\ pc = "sending"
  /\ LET f == ForcedHeaders(headers, cur)
         text == IF f.ok THEN RequestText(method, f.headers, cur)
                 ELSE <<RequestLine(method, cur)>>
     IN  /\ headers' = f.headers
         /\ k <= Len(text)
         /\ hops' = [hops EXCEPT ![Last].wire = SubSeq(text, 1, k)]
  /\ pc' = "awaiting"
  /\ UNCHANGED <<url, method, redirect, default_encoding, ret, nops, self0, cur, result>>

\* write_request fails: a forced header is rejected, or the transport fails.
\* k lines of what the BufWriter holds reached the transport: the failed
\* write's share, and what BufWriter's drop flushes on the way out.
WriteErr(k) ==
  /\ pc = "sending"
  /\ LET f == ForcedHeaders(headers, cur)
         text == IF f.ok THEN RequestText(method, f.headers, cur)
                 ELSE <<RequestLine(method, cur)>>
     IN  /\ headers' = f.headers
         /\ k <= Len(text)
         /\ hops' = [hops EXCEPT ![Last].wire = SubSeq(text, 1, k),
                                 ![Last].stream = "closed"]
         /\ result' = IF f.ok THEN Err("Io", "write") ELSE Err("Http", "header value")
  /\ pc' = "failed"
  /\ UNCHANGED <<url, method, redirect, default_encoding, ret, nops, self0, cur>>

\* mutant of ReadResponse: the reader of a followed redirect is kept
ReadResponse_KeepReader(r) ==
  /\ pc = "awaiting"
  /\ LET d == Decision(url, redirect, cur, r)
     IN  CASE d.kind = "return" ->
                /\ hops' = [hops EXCEPT ![Last].read = TRUE, ![Last].resp = r]
                /\ result' = Ok(r, Last)
                /\ pc' = "done"
                /\ UNCHANGED cur
           [] d.kind = "fail" ->
                /\ hops' = [hops EXCEPT ![Last].read = TRUE, ![Last].resp = r,
                                        ![Last].stream = "closed"]
                /\ result' = Err(d.err, d.msg)
                /\ pc' = "failed"
                /\ UNCHANGED cur
           [] OTHER ->
                /\ hops' = [hops EXCEPT ![Last].read = TRUE, ![Last].resp = r]
                /\ cur' = d.url
                /\ pc' = "connecting"
                /\ UNCHANGED result
  /\ UNCHANGED <<request, ret, nops, self0>>

\* mutant of ReadResponse: a followed redirect turns the method into GET
ReadResponse_GetOnRedirect(r) ==
  /\ pc = "awaiting"
  /\ LET d == Decision(url, redirect, cur, r)
     IN  CASE d.kind = "return" ->
                /\ hops' = [hops EXCEPT ![Last].read = TRUE, ![Last].resp = r]
                /\ result' = Ok(r, Last)
                /\ pc' = "done"
                /\ UNCHANGED <<cur, method>>
           [] d.kind = "fail" ->
                /\ hops' = [hops EXCEPT ![Last].read = TRUE, ![Last].resp = r,
                                        ![Last].stream = "closed"]
                /\ result' = Err(d.err, d.msg)
                /\ pc' = "failed"
                /\ UNCHANGED <<cur, method>>
           [] OTHER ->
                /\ hops' = [hops EXCEPT ![Last].read = TRUE, ![Last].resp = r,
                                        ![Last].stream = "closed"]
                /\ cur' = d.url
                /\ method' = "GET"
                /\ pc' = "connecting"
                /\ UNCHANGED result
  /\ UNCHANGED <<url, headers, redirect, default_encoding, ret, nops, self0>>

\* parse::read_response returns r = (status, headers, resp) and the loop body
\* runs to its end: return the response, fail, or go round with a new URL
ReadResponse(r) ==
  /\ pc = "awaiting"
  /\ LET d == Decision(url, redirect, cur, r)
     IN  CASE d.kind = "return" ->
                /\ hops' = [hops EXCEPT ![Last].read = TRUE, ![Last].resp = r]
                /\ result' = Ok(r, Last)
                /\ pc' = "done"
                /\ UNCHANGED cur
           [] d.kind = "fail" ->
                /\ hops' = [hops EXCEPT ![Last].read = TRUE, ![Last].resp = r,
                                        ![Last].stream = "closed"]
                /\ result' = Err(d.err, d.msg)
                /\ pc' = "failed"
                /\ UNCHANGED cur
           [] OTHER ->
                /\ hops' = [hops EXCEPT ![Last].read = TRUE, ![Last].resp = r,
                                        ![Last].stream = "closed"]
                /\ cur' = d.url
                /\ pc' = "connecting"
                /\ UNCHANGED result
  /\ UNCHANGED <<request, ret, nops, self0>>

\* parse::read_response fails; the stream it was given is dropped
ReadErr ==
  /\ pc = "awaiting"
  /\ hops' = [hops EXCEPT ![Last].read = TRUE, ![Last].stream = "closed"]
  /\ result' = Err("Io", "read")
  /\ pc' = "failed"
  /\ UNCHANGED <<request, ret, nops, self0, cur>>

\* ---------------------------------------------------------- specification
\* lines of the longest request the bounds allow
MaxLines == 2 + MaxOps + 2

Next ==
  \/ \E t \in BaseUrls : New(t)
  \/ \E m \in Methods : SetMethod(m)
  \/ \E k \in ParamKeys, v \in ParamValues : Param(k, v)
  \/ \E n \in CallerNames, v \in CallerValues : Header(n, v)
  \/ \E n \in CallerNames, v \in CallerValues : HeaderAppend(n, v)
  \/ \E b \in BOOLEAN : Redirect(b)
  \/ \E e \in Encodings : DefaultEncoding(e)
  \/ Send
  \/ ConnectInvalid
  \/ ConnectOk
  \/ ConnectErr
  \/ WriteOk
  \/ \E k \in 0..MaxLines : WriteErr(k)
  \/ \E r \in Responses : ReadResponse(r)
  \/ ReadErr

Spec == Init /\ [][Next]_vars

\* A server of two URLs that redirect to each other, with every connect,
\* write and read succeeding: whatever is asked of example.com is sent to
\* http://1.2.3.4/, and anything else to https://example.com/a.
LoopServer(u) ==
  [status |-> 301,
   headers |-> ResponseHeaders(
     << IF u.host = <<"example", ".", "com">>
        THEN <<"http", ":", "//", "1", ".", "2", ".", "3", ".", "4", "/">>
        ELSE <<"https", ":", "//", "example", ".", "com", "/", "a">> >>)]

NextLoop ==
  \/ \E t \in BaseUrls : New(t)
  \/ \E m \in Methods : SetMethod(m)
  \/ \E k \in ParamKeys, v \in ParamValues : Param(k, v)
  \/ \E n \in CallerNames, v \in CallerValues : Header(n, v)
  \/ \E n \in CallerNames, v \in CallerValues : HeaderAppend(n, v)
  \/ \E b \in BOOLEAN : Redirect(b)
  \/ \E e \in Encodings : DefaultEncoding(e)
  \/ Send
  \/ ConnectInvalid
  \/ ConnectOk
  \/ WriteOk
  \/ ReadResponse(LoopServer(cur))

SpecLoop == Init /\ [][NextLoop]_vars


\* ------------------------------------------------------ reading the history
\* a status of the redirection class, as the glossary defines it
Is3xx(status) == status \in 300..399
\* hop i received a response
Answered(i) == hops[i].resp.status # 0
\* the Location values of hop i's response
LocationOf(i) == hops[i].resp.headers["location"]
\* no scheme in front: a relative reference
IsRelativeRef(t) == ~(Len(t) >= 2 /\ t[2] = ":")
\* the URL send works on after hop i
UrlAfter(i) == IF i < Last THEN hops[i + 1].url ELSE cur
\* send returned exactly the response of hop i, whose stream the reader owns
Returned(i) ==
  /\ pc = "done"
  /\ result.tag = "ok"
  /\ result.status = hops[i].resp.status
  /\ result.headers = hops[i].resp.headers
  /\ result.reader = i

\* C1: with follow-redirects on, a history of N answered 3xx hops followed by
\* an answered non-3xx hop means send has returned that last response and made
\* exactly N+1 connections, each opened for its own hop.
C1_ChainReturnsTerminal ==
  ( /\ redirect
    /\ Last >= 1
    /\ Answered(Last) /\ ~Is3xx(hops[Last].resp.status)
    /\ \A i \in 1..(Last - 1) : Is3xx(hops[i].resp.status) )
  => /\ Returned(Last)
     /\ Cardinality({i \in 1..Last : Is3xx(hops[i].resp.status)}) + 1 = Last
     /\ \A i \in 1..Last : hops[i].stream # "none" /\ hops[i].flushed /\ hops[i].read
     /\ \A i \in 1..(Last - 1) : hops[i].stream = "closed"

\* two redirects that stay on one host, then a terminal response
C1_Witness ==
  /\ redirect
  /\ Last = 3
  /\ Returned(3)
  /\ Is3xx(hops[1].resp.status) /\ Is3xx(hops[2].resp.status)
  /\ hops[1].host = hops[2].host /\ hops[2].host = hops[3].host

\* C2: a relative Location is joined against the URL of the hop that produced
\* it; for Location /b the next request line is METHOD /b HTTP/1.1 and the
\* next hop keeps that hop's scheme, host and port.
C2_RelativeAgainstCurrent ==
  \A i \in 1..Last :
    ( /\ pc \in {"connecting", "sending", "awaiting", "done", "failed"}
      /\ redirect
      /\ Is3xx(hops[i].resp.status)
      /\ LocationOf(i) # <<>>
      /\ IsRelativeRef(LocationOf(i)[1])
      /\ (i < Last \/ pc = "connecting") )
    => /\ UrlJoin(hops[i].url, LocationOf(i)[1]).ok
       /\ UrlAfter(i) = UrlJoin(hops[i].url, LocationOf(i)[1]).url
       /\ LocationOf(i)[1][1] # "//"
            => /\ UrlAfter(i).scheme = hops[i].url.scheme
               /\ UrlAfter(i).host = hops[i].url.host
               /\ UrlAfter(i).port = hops[i].url.port
       /\ (LocationOf(i)[1] = <<"/", "b">> /\ i < Last /\ hops[i + 1].flushed)
            => hops[i + 1].wire[1] = <<method, " ", "/", "b", " ", "HTTP/1.1">>

\* hop 2 is not at the Request's URL and answers with a relative Location that
\* the Request's URL would resolve differently
C2_Witness ==
  /\ Last = 3
  /\ hops[3].flushed
  /\ hops[2].url # url
  /\ LocationOf(2) = << <<"/", "b">> >>
  /\ UrlJoin(url, <<"/", "b">>).url # hops[3].url

\* C3: a first response outside 3xx is returned as it is after exactly one
\* connection, whatever the follow-redirects flag.
C3_NonRedirectReturned ==
  (Last >= 1 /\ Answered(1) /\ ~Is3xx(hops[1].resp.status))
  => Last = 1 /\ Returned(1) /\ hops[1].stream = "open"

C3_Witness ==
  /\ Last = 1
  /\ Returned(1)
  /\ hops[1].resp.status = 400
  /\ LocationOf(1) # <<>>

\* C4: with follow-redirects off, a first 3xx response is returned unchanged
\* after exactly one connection, with or without a (usable) Location.
C4_RedirectDisabledReturns3xx ==
  (~redirect /\ Last >= 1 /\ Answered(1) /\ Is3xx(hops[1].resp.status))
  => Last = 1 /\ Returned(1)

\* a 3xx with no Location at all, returned
C4_Witness ==
  /\ ~redirect
  /\ Returned(1)
  /\ Is3xx(result.status)
  /\ result.headers["location"] = <<>>

\* C5: with follow-redirects on, a 3xx response without Location fails send
\* with InvalidResponse and is the last hop: no connection follows it.
C5_NoLocationFails ==
  \A i \in 1..Last :
    (redirect /\ Is3xx(hops[i].resp.status) /\ LocationOf(i) = <<>>)
    => /\ i = Last
       /\ pc = "failed"
       /\ result = Err("InvalidResponse", "redirect has no location header")
       /\ hops[i].stream = "closed"

\* a 304 without Location on the first hop
C5_Witness ==
  /\ redirect
  /\ Last = 1
  /\ hops[1].resp.status = 304
  /\ LocationOf(1) = <<>>
  /\ pc = "failed"

\* C6: against two URLs that redirect to each other, with follow-redirects on
\* and nothing failing, send is never Done or Failed, and every step it takes
\* leads round the loop: connect (one more connection), write, read, and
\* connect again at the other URL.
C6_InLoop ==
  /\ pc \in {"connecting", "sending", "awaiting", "done", "failed"}
  /\ self0.redirect
  /\ self0.url.hostkind # "none"
  /\ self0.url.scheme \in {"http", "https"}

C6_Round ==
  C6_InLoop =>
    /\ pc = "connecting" => pc' = "sending" /\ Len(hops') = Len(hops) + 1
    /\ pc = "sending" => pc' = "awaiting" /\ Len(hops') = Len(hops)
    /\ pc = "awaiting" =>
         /\ pc' = "connecting" /\ Len(hops') = Len(hops)
         /\ cur' # cur
         /\ cur'.hostkind # "none" /\ cur'.scheme \in {"http", "https"}

C6_UnboundedLoop ==
  /\ [](C6_InLoop => pc \in {"connecting", "sending", "awaiting"})
  /\ [][C6_Round]_vars

\* the loop has come back to a URL it already asked, as many connections
\* later as the model allows
C6_Witness ==
  /\ C6_InLoop
  /\ Last = MaxHops
  /\ Last >= 3
  /\ pc = "connecting"
  /\ hops[Last - 1].url # hops[Last].url
  /\ cur = hops[Last - 1].url

\* C7: a failed step of a hop is the last thing send does and its error is
\* what send returns; there is exactly one outcome, an Ok triple or an error,
\* and it never changes.
C7_FailureOf(i) ==
  IF hops[i].stream = "none" THEN Err("Io", "connect")
  ELSE IF ~hops[i].flushed THEN Err("Io", "write")
  ELSE IF ~Answered(i) THEN Err("Io", "read")
  ELSE IF LocationOf(i) = <<>>
  THEN Err("InvalidResponse", "redirect has no location header")
  ELSE IF "<ff>" \in {LocationOf(i)[1][j] : j \in 1..Len(LocationOf(i)[1])}
  THEN Err("InvalidResponse", "location to str error")
  ELSE IF IsRelativeRef(LocationOf(i)[1])
  THEN Err("InvalidUrl", "cannot join location with new url")
  ELSE Err("InvalidUrl", "invalid redirection url")

C7_Failed(i) ==
  \/ hops[i].stream = "none"
  \/ hops[i].stream = "closed" /\ ~hops[i].flushed
  \/ hops[i].read /\ ~Answered(i)
  \/ /\ Answered(i) /\ self0.redirect /\ Is3xx(hops[i].resp.status)
     /\ \/ LocationOf(i) = <<>>
        \/ ~ToStrOk(LocationOf(i)[1])
        \/ base_redirect_url(LocationOf(i)[1], hops[i].url).err # ""

C7_State ==
  /\ (result.tag = "ok") <=> (pc = "done")
  /\ (result.tag = "err") <=> (pc = "failed")
  /\ \A i \in 1..Last :
       C7_Failed(i) => i = Last /\ pc = "failed" /\ result = C7_FailureOf(i)
  /\ pc = "failed" => \A i \in 1..Last : hops[i].stream # "open"

C7_Step ==
  result.tag # "none" => result' = result /\ hops' = hops /\ pc' = pc

C7_FirstErrorOnly == []C7_State /\ [][C7_Step]_vars

\* the read of the second hop failed
C7_Witness ==
  /\ pc = "failed"
  /\ Last = 2
  /\ hops[2].read /\ ~Answered(2)
  /\ result = Err("Io", "read")

\* the lines of a written request that carry header `name`
LinesNamed(w, name) ==
  {j \in 1..Len(w) : Len(w[j]) >= 2 /\ w[j][1] = name /\ w[j][2] = ": "}

\* C8: every request put on a transport has exactly one Connection header, and
\* it says close, whatever the caller set or appended for Connection.
C8_ConnectionClose ==
  \A i \in 1..Last :
    LET c == LinesNamed(hops[i].wire, "connection")
    IN  /\ \A j \in c : hops[i].wire[j] = <<"connection", ": ", "close">>
        /\ Cardinality(c) <= 1
        /\ hops[i].flushed => Cardinality(c) = 1

\* the caller appended two Connection values, and two hops were written
C8_Witness ==
  /\ Last >= 2
  /\ hops[1].flushed /\ hops[2].flushed
  /\ Len(self0.headers["connection"]) = 2

\* C9: the request of every hop whose URL has a domain carries exactly one
\* Host header, the domain of that hop's URL.
C9_HostIsHopDomain ==
  \A i \in 1..Last :
    (hops[i].flushed /\ hops[i].url.hostkind = "domain")
    => LET h == LinesNamed(hops[i].wire, "host")
       IN  /\ Cardinality(h) = 1
           /\ \A j \in h : hops[i].wire[j] = <<"host", ": ">> \o hops[i].url.host

\* the caller set a Host, and two hops went to two different domains
C9_Witness ==
  /\ Last >= 2
  /\ hops[1].flushed /\ hops[2].flushed
  /\ self0.headers["host"] # <<>>
  /\ hops[1].url.hostkind = "domain" /\ hops[2].url.hostkind = "domain"
  /\ hops[1].url.host # hops[2].url.host

\* C10: a transport is asked for only for a URL with a host, a port (explicit
\* or the scheme's default) and scheme http (plaintext) or https (encrypted),
\* judged on the hop's own URL; any other URL fails the hop with InvalidUrl,
\* the host checked first, then the port, then the scheme, and opens nothing.
C10_Usable(u) ==
  /\ u.host # <<>>
  /\ u.port # NoPort \/ DefaultPort(u.scheme) # NoPort
  /\ u.scheme \in {"http", "https"}

C10_Complaint(u) ==
  IF u.host = <<>> THEN "url has no host"
  ELSE IF u.port = NoPort /\ DefaultPort(u.scheme) = NoPort THEN "url has no port"
  ELSE "url contains unsupported scheme"

C10_State ==
  \A i \in 1..Last :
    /\ C10_Usable(hops[i].url)
    /\ hops[i].kind = (IF hops[i].url.scheme = "http" THEN "plain" ELSE "tls")
    /\ hops[i].host = hops[i].url.host
    /\ hops[i].port = (IF hops[i].url.port # NoPort THEN hops[i].url.port
                       ELSE IF hops[i].url.scheme = "http" THEN 80 ELSE 443)

C10_Step ==
  (pc = "connecting" /\ pc' # pc)
  => IF C10_Usable(cur)
     THEN /\ Len(hops') = Len(hops) + 1
          /\ hops'[Len(hops')].url = cur
     ELSE /\ hops' = hops
          /\ pc' = "failed"
          /\ result' = Err("InvalidUrl", C10_Complaint(cur))

C10_ConnectByUrl == []C10_State /\ [][C10_Step]_vars

\* a redirect from a plaintext hop to an encrypted one
C10_Witness ==
  /\ Last = 2
  /\ hops[1].kind = "plain"
  /\ hops[2].kind = "tls"
  /\ hops[2].stream = "open"

\* the request target of a written request line: what stands between
\* "METHOD " and " HTTP/1.1"
TargetOf(line) == SubSeq(line, 3, Len(line) - 2)
\* the request line of hop i reached the transport
LineWritten(i) == Len(hops[i].wire) >= 1

\* C11 as stated: the request line of a hop has a question mark followed by
\* the query exactly when the hop's URL has a non-empty query; with no query
\* or an empty one the line is METHOD path HTTP/1.1.
C11_QueryIffNonEmpty ==
  \A i \in 1..Last :
    LineWritten(i) =>
      LET t == TargetOf(hops[i].wire[1])
      IN  /\ HasQueryOf(t) <=> hops[i].url.query # <<>>
          /\ HasQueryOf(t) => QueryOf(t) = hops[i].url.query
          /\ PathOf(t) = hops[i].url.path

\* C11 amended: the request line of a hop is METHOD path?query HTTP/1.1
\* exactly when the hop's URL has a query component, empty or not (an empty
\* one gives METHOD path? HTTP/1.1), and METHOD path HTTP/1.1 when it has none.
C11_QueryIffPresent ==
  \A i \in 1..Last :
    LineWritten(i) =>
      LET line == hops[i].wire[1]
          t == TargetOf(line)
      IN  /\ line[1] = method /\ line[2] = " "
          /\ SubSeq(line, Len(line) - 1, Len(line)) = <<" ", "HTTP/1.1">>
          /\ HasQueryOf(t) <=> hops[i].url.hasquery
          /\ QueryOf(t) = hops[i].url.query
          /\ PathOf(t) = hops[i].url.path

\* a hop whose URL has an empty query, and whose line ends in "?"
C11_Witness ==
  \E i \in 1..Last :
    /\ hops[i].flushed
    /\ hops[i].url.hasquery /\ hops[i].url.query = <<>>
    /\ TargetOf(hops[i].wire[1]) = hops[i].url.path \o <<"?">>

\* C12 as stated: new(base_url) on text that is not a valid URL gives the
\* caller an error outcome; the call never ends in a panic that takes the
\* caller's thread (and, uncaught, the process) with it.
C12_NewFailsNeverAborts == pc # "panicked"

\* every header name but n keeps its values in this step
OthersKept(n) == \A m \in HeaderNames \ {n} : headers'[m] = headers[m]

\* C13: in every builder step, header(name, v) with a convertible v leaves
\* name with the single value v whatever it held, header_append(name, v) with
\* a convertible v keeps the values of name and adds v after them, and both
\* leave every other header name as it was.
C13_Step ==
  \A n \in CallerNames, v \in CallerValues :
    (\A i \in 1..Len(v) : v[i] \notin CtlTokens) =>
      /\ Header(n, v) =>
           /\ headers'[CanonName(n)] = <<v>>
           /\ OthersKept(CanonName(n))
           /\ ret' = "Ok"
      /\ HeaderAppend(n, v) =>
           /\ headers'[CanonName(n)] = headers[CanonName(n)] \o <<v>>
           /\ OthersKept(CanonName(n))
           /\ ret' = "Ok"

C13_SetReplacesAppendAdds == [][C13_Step]_vars

\* two successful header calls left one name with two values and another
\* call has not touched the rest
C13_Witness ==
  /\ pc = "building"
  /\ nops = 2
  /\ ret = "Ok"
  /\ \E n \in HeaderNames :
       /\ Len(headers[n]) = 2
       /\ \A m \in HeaderNames \ {n} : headers[m] = <<>>

\* C14: send holds an Ok triple only when it is Done, the triple is the
\* response of the last hop, and follow-redirects is off or that status is
\* outside 3xx; with follow-redirects on, a 3xx response is never the result:
\* send has gone on towards a further hop or has Failed.
C14_OkOnlyTerminal ==
  /\ result.tag = "ok" =>
       /\ pc = "done"
       /\ Last >= 1
       /\ Returned(Last)
       /\ ~redirect \/ ~Is3xx(hops[Last].resp.status)
  /\ \A i \in 1..Last :
       (redirect /\ Answered(i) /\ Is3xx(hops[i].resp.status)) =>
         /\ result.tag # "ok" \/ result.reader # i
         /\ i < Last \/ pc \in {"connecting", "failed"}

\* follow-redirects on: a 303 was followed and the 400 after it returned
C14_Witness ==
  /\ redirect
  /\ pc = "done"
  /\ Last = 2
  /\ hops[1].resp.status = 303
  /\ result.tag = "ok" /\ result.status = 400

\* hop i is where send failed with error kind e: it is the last hop, its
\* stream is released, and nothing was connected after it
FailedAt(i, e) ==
  /\ i = Last
  /\ pc = "failed"
  /\ result.tag = "err" /\ result.err = e
  /\ hops[i].stream = "closed"

\* the working URL after hop i is u: the next connect is for u
WentOnTo(i, u) ==
  /\ UrlAfter(i) = u
  /\ i = Last => pc \in {"connecting", "failed"} /\ hops[i].stream = "closed"
  /\ i = Last /\ pc = "failed" => result.err = "InvalidUrl" /\ connect(u).err # ""

\* C15: with follow-redirects on, a 3xx response with a Location either fails
\* send at that hop (InvalidResponse for a value that is not text, InvalidUrl
\* for a relative value the current URL cannot be joined with and for any
\* other parse failure) with no further connection, or makes the parsed
\* absolute URL, or the join of a relative value with the hop's URL, the next
\* working URL.
C15_LocationHandling ==
  \A i \in 1..Last :
    ( /\ self0.redirect
      /\ Answered(i) /\ Is3xx(hops[i].resp.status)
      /\ LocationOf(i) # <<>> )
    => LET loc == LocationOf(i)[1]
           text == \A j \in 1..Len(loc) : loc[j] # "<ff>"
           abs == UrlParse(loc)
           rel == UrlJoin(hops[i].url, loc)
       IN  /\ ~text => FailedAt(i, "InvalidResponse")
           /\ (text /\ abs.ok) =>
                /\ WentOnTo(i, abs.url)
                /\ UrlAfter(i).scheme = loc[1]
           /\ (text /\ ~abs.ok /\ IsRelativeRef(loc) /\ rel.ok) => WentOnTo(i, rel.url)
           /\ (text /\ ~abs.ok /\ IsRelativeRef(loc) /\ ~rel.ok) => FailedAt(i, "InvalidUrl")
           /\ (text /\ ~abs.ok /\ ~IsRelativeRef(loc)) => FailedAt(i, "InvalidUrl")

\* the second hop's Location is relative and cannot be joined
C15_Witness ==
  /\ Last = 2
  /\ LocationOf(2) # <<>>
  /\ IsRelativeRef(LocationOf(2)[1])
  /\ ~UrlJoin(hops[2].url, LocationOf(2)[1]).ok
  /\ FailedAt(2, "InvalidUrl")

IsHostLine(l) == Len(l) >= 2 /\ l[1] = "host" /\ l[2] = ": "
\* the Host values a written request carries, in the order written
HostValuesOn(w) ==
  [k \in 1..Len(SelectSeq(w, IsHostLine)) |->
     SubSeq(SelectSeq(w, IsHostLine)[k], 3, Len(SelectSeq(w, IsHostLine)[k]))]
\* the hops before i whose URL has a domain
DomainHopsBefore(i) == {j \in 1..(i - 1) : hops[j].flushed /\ hops[j].url.hostkind = "domain"}
\* the largest member of a non-empty set of hop numbers
Latest(S) == CHOOSE j \in S : \A k \in S : k <= j

\* C16: a hop whose URL has no domain writes the Host values the header map
\* already holds: the domain of the most recent earlier hop that had one, or,
\* when no hop had one, what the caller set; never the hop's own host.
C16_StaleHost ==
  \A i \in 1..Last :
    (hops[i].flushed /\ hops[i].url.hostkind # "domain") =>
      /\ HostValuesOn(hops[i].wire) =
           IF DomainHopsBefore(i) # {}
           THEN << hops[Latest(DomainHopsBefore(i))].url.host >>
           ELSE self0.headers["host"]
      /\ \A k \in 1..Len(HostValuesOn(hops[i].wire)) :
           HostValuesOn(hops[i].wire)[k] # hops[i].url.host
      /\ i = Last => headers["host"] = HostValuesOn(hops[i].wire)

\* example.com redirected to 1.2.3.4, whose request says Host: example.com
C16_Witness ==
  /\ Last >= 2
  /\ hops[1].flushed /\ hops[1].url.hostkind = "domain"
  /\ hops[2].flushed /\ hops[2].url.hostkind = "ipv4"
  /\ HostValuesOn(hops[2].wire) = << hops[1].url.host >>
  /\ hops[2].host # hops[1].host

IsNamedLine(l, name) == Len(l) >= 2 /\ l[1] = name /\ l[2] = ": "
IsAcceptLine(l) == IsNamedLine(l, "accept")
\* header names that write_request does not force
FreeNames == HeaderNames \ {"connection", "host"}
Sending == pc \in {"connecting", "sending", "awaiting", "done", "failed"}

\* C17: from the call of send on, the Request's URL, method, follow-redirects
\* flag, default encoding and every header other than Connection and Host
\* are what they were at the call, and every hop's request is written with
\* that method and those headers, whatever the redirects were.
C17_OnlyUrlChanges ==
  Sending =>
    /\ url = self0.url
    /\ method = self0.method
    /\ redirect = self0.redirect
    /\ default_encoding = self0.default_encoding
    /\ \A n \in FreeNames : headers[n] = self0.headers[n]
    /\ \A i \in 1..Last :
         /\ LineWritten(i) => hops[i].wire[1][1] = self0.method
         /\ hops[i].flushed =>
              /\ SelectSeq(hops[i].wire, IsAcceptLine) =
                   [k \in 1..Len(self0.headers["accept"]) |->
                      <<"accept", ": ">> \o self0.headers["accept"][k]]
              /\ \A j \in 2..(Len(hops[i].wire) - 1) :
                   \/ IsNamedLine(hops[i].wire[j], "connection")
                   \/ IsNamedLine(hops[i].wire[j], "host")
                   \/ IsNamedLine(hops[i].wire[j], "accept")

\* a POST with an Accept header, redirected by a 303 and then by a 301 to
\* another host
C17_Witness ==
  /\ Last = 3
  /\ hops[1].flushed /\ hops[2].flushed /\ hops[3].flushed
  /\ hops[1].resp.status = 303
  /\ hops[2].resp.status = 301
  /\ hops[2].host # hops[3].host
  /\ self0.method = "POST"
  /\ self0.headers["accept"] # <<>>

IsRequestLine(l) ==
  Len(l) >= 4 /\ l[1] \in Methods /\ l[2] = " " /\ l[Len(l) - 1] = " " /\ l[Len(l)] = "HTTP/1.1"
IsHeaderLine(l) == Len(l) >= 2 /\ l[1] \in HeaderNames /\ l[2] = ": "
\* what reached the transport is a beginning of: request line, header lines,
\* blank line
InWriteOrder(w) ==
  \A j \in 1..Len(w) :
    IF j = 1 THEN IsRequestLine(w[j])
    ELSE IsHeaderLine(w[j]) \/ (w[j] = <<>> /\ j = Len(w))
\* the whole request, blank line included
WholeRequest(w) == Len(w) >= 2 /\ InWriteOrder(w) /\ w[Len(w)] = <<>>

\* C18: in every hop, bytes reach the transport only over that hop's opened
\* connection and in the order request line, headers, blank line; a response
\* is read only from a hop whose whole request was flushed; a hop whose write
\* failed is never read from.
C18_State ==
  \A i \in 1..Last :
    /\ InWriteOrder(hops[i].wire)
    /\ hops[i].wire # <<>> => hops[i].stream # "none"
    /\ hops[i].flushed => WholeRequest(hops[i].wire) /\ hops[i].stream # "none"
    /\ hops[i].read => hops[i].flushed
    /\ Answered(i) => hops[i].read
    /\ (hops[i].stream = "closed" /\ ~hops[i].flushed) => ~hops[i].read /\ ~Answered(i)
    /\ i < Last => hops[i].read /\ Answered(i)

\* a step writes only to the hop that has just connected, and reads only
\* from the hop that has just been written
C18_Step ==
  \A i \in 1..Last :
    /\ hops'[i].wire # hops[i].wire =>
         /\ pc = "sending" /\ i = Last
         /\ hops[i].stream = "open" /\ hops[i].wire = <<>> /\ ~hops[i].read
    /\ (hops'[i].read /\ ~hops[i].read) =>
         /\ pc = "awaiting" /\ i = Last
         /\ hops[i].flushed /\ hops'[i].wire = hops[i].wire

C18_StepOrder == []C18_State /\ [][C18_Step]_vars

\* the first hop went through all its steps; the second hop's write failed
\* after the request line and was never read
C18_Witness ==
  /\ Last = 2
  /\ hops[1].flushed /\ hops[1].read
  /\ pc = "failed"
  /\ Len(hops[2].wire) = 1
  /\ ~hops[2].flushed /\ ~hops[2].read
  /\ result = Err("Io", "write")

\* the hops whose transport stream is open
OpenStreams == {i \in 1..Last : hops[i].stream = "open"}

\* C19: at most one transport stream is open at any time, and only the last
\* hop's: none while send is about to connect, exactly the returned reader's
\* when send is Done, none when send has Failed.
C19_OneStreamOpen ==
  /\ Cardinality(OpenStreams) <= 1
  /\ OpenStreams \subseteq {Last}
  /\ pc = "connecting" => OpenStreams = {}
  /\ pc \in {"sending", "awaiting"} => OpenStreams = {Last}
  /\ pc = "done" => OpenStreams = {result.reader} /\ result.reader = Last
  /\ pc = "failed" => OpenStreams = {}

\* the second hop is connected; the first hop's stream, which carried a
\* redirect, is released
C19_Witness ==
  /\ pc = "sending"
  /\ Last = 2
  /\ Is3xx(hops[1].resp.status)
  /\ hops[1].stream = "closed"
  /\ hops[2].stream = "open"

\* C20: in every builder step, header(name, v) and header_append(name, v)
\* with a v that cannot be converted return the header-format error and leave
\* the header map and every other field of the Request as they were.
C20_Step ==
  \A n \in CallerNames, v \in CallerValues :
    (\E i \in 1..Len(v) : v[i] \in CtlTokens) =>
      /\ Header(n, v) => request' = request /\ ret' = "Err"
      /\ HeaderAppend(n, v) => request' = request /\ ret' = "Err"

C20_RejectedValueChangesNothing == [][C20_Step]_vars

\* a header call was refused on a Request that already held a header value
C20_Witness ==
  /\ pc = "building"
  /\ nops = 2
  /\ ret = "Err"
  /\ \E n \in HeaderNames : headers[n] # <<>>

====
